---- MODULE Spec2Model ----
(***************************************************************************)
(* Model of apis/generate_code_api测试.py: a script that POSTs one fixed   *)
(* JSON payload to 127.0.0.1:8000/generate and prints the response body.   *)
(*                                                                         *)
(* Text (Python str) is a sequence of Unicode code points, bytes objects   *)
(* are sequences of integers 0..255.  The conversions the script goes      *)
(* through (json.dumps, the latin-1 encoding done by conn.request, the     *)
(* UTF-8 decoding of the response) are computed, not assumed.              *)
(***************************************************************************)
EXTENDS Integers, Sequences, FiniteSets, TLC

(***************************************************************************)
(* Bounds of the model.                                                    *)
(***************************************************************************)
\* longest response body enumerated byte by byte
MaxBody == 2
\* number of times the script is run one after the other
MaxRuns == 2

(***************************************************************************)
(* State.  One run of the script is the module body executed top to        *)
(* bottom; pc names the line about to be executed.                         *)
(***************************************************************************)
VARIABLES
  pc,       \* "line4", "line5", "line9", "line13" .. "line16", "exited", "faulted"
  err,      \* the exception that ended the run, "" when there is none
  conn,     \* line 4: the HTTPConnection, [host, port, sock]
  payload,  \* line 5: the JSON text
  headers,  \* line 9: the headers dict
  res,      \* line 14: the HTTPResponse
  data,     \* line 15: the body read
  stdout,   \* the text written to standard output by this run
  peer,     \* what listens on the port: "unknown" until the connection attempt
  inbox,    \* what has arrived on the socket from the peer
  wire,     \* the requests put on the wire, over all runs
  steps,    \* the steps this run has taken, in order
  run       \* the number of this run

vars == <<pc, err, conn, payload, headers, res, data, stdout, peer, inbox,
          wire, steps, run>>

(***************************************************************************)
(* Literals of the script.                                                 *)
(***************************************************************************)
\* line 4: http.client.HTTPConnection("127.0.0.1", 8000)
Host == "127.0.0.1"
Port == 8000
\* line 13: conn.request("POST", "/generate", ...)
Method == "POST"
Path == "/generate"
\* line 6: "question"
KeyQuestion == <<113, 117, 101, 115, 116, 105, 111, 110>>
\* line 6: "生成一个贪吃蛇项目"
Question == <<29983, 25104, 19968, 20010, 36138, 21507, 34503, 39033, 30446>>
\* line 7: "language"
KeyLanguage == <<108, 97, 110, 103, 117, 97, 103, 101>>
\* line 7: "python"
Language == <<112, 121, 116, 104, 111, 110>>
\* mutant of PayloadObject: a field that differs from run to run
PayloadObjectStamped ==
  << <<KeyQuestion, Question>>, <<KeyLanguage, Language>>,
     << <<116, 115>>, <<48 + run>> >> >>

\* lines 5-8: the dict literal, in insertion order
PayloadObject == << <<KeyQuestion, Question>>, <<KeyLanguage, Language>> >>
\* mutant of HeadersLiteral: the Content-Type entry is missing
HeadersNoContentType ==
  << <<"User-Agent", "Apifox/1.0.0 (https://apifox.com)">> >>

\* lines 9-12: the headers dict, in insertion order
HeadersLiteral ==
  << <<"User-Agent", "Apifox/1.0.0 (https://apifox.com)">>,
     <<"Content-Type", "application/json">> >>

(***************************************************************************)
(* json.dumps with its defaults (ensure_ascii=True, separators ", " ": "). *)
(***************************************************************************)
\* mutant of HexDigit: upper-case hex digits
HexDigitUpper(d) == IF d < 10 THEN 48 + d ELSE 55 + d

HexDigit(d) == IF d < 10 THEN 48 + d ELSE 87 + d

\* mutant of Hex4: the two bytes of the code unit in the wrong order
Hex4Swapped(n) ==
  << HexDigit((n \div 16) % 16), HexDigit(n % 16),
     HexDigit(n \div 4096), HexDigit((n \div 256) % 16) >>

Hex4(n) ==
  << HexDigit(n \div 4096), HexDigit((n \div 256) % 16),
     HexDigit((n \div 16) % 16), HexDigit(n % 16) >>

\* \uXXXX, or a surrogate pair for a code point outside the BMP
UEscape(c) ==
  IF c < 65536
  THEN <<92, 117>> \o Hex4(c)
  ELSE LET n == c - 65536
       IN  <<92, 117>> \o Hex4(55296 + (n \div 1024)) \o
           <<92, 117>> \o Hex4(56320 + (n % 1024))

\* one character of a JSON string: only space..~ is left as it is
EscapeChar(c) ==
  CASE c = 34 -> <<92, 34>>
    [] c = 92 -> <<92, 92>>
    [] c = 10 -> <<92, 110>>
    [] c = 13 -> <<92, 114>>
    [] c = 9  -> <<92, 116>>
    [] c = 8  -> <<92, 98>>
    [] c = 12 -> <<92, 102>>
    [] OTHER  -> IF c >= 32 /\ c <= 126 THEN <<c>> ELSE UEscape(c)

RECURSIVE EscapeAll(_)
EscapeAll(s) ==
  IF s = <<>> THEN <<>>
  ELSE IF Len(s) = 1 THEN EscapeChar(s[1])
  ELSE LET h == Len(s) \div 2
       IN  EscapeAll(SubSeq(s, 1, h)) \o EscapeAll(SubSeq(s, h + 1, Len(s)))

DumpsStr(s) == <<34>> \o EscapeAll(s) \o <<34>>

RECURSIVE DumpsItems(_)
DumpsItems(items) ==
  IF items = <<>> THEN <<>>
  ELSE DumpsStr(items[1][1]) \o <<58, 32>> \o DumpsStr(items[1][2]) \o
       (IF Len(items) > 1 THEN <<44, 32>> ELSE <<>>) \o
       DumpsItems(Tail(items))

\* json.dumps of a dict of str to str
JsonDumps(obj) == <<123>> \o DumpsItems(obj) \o <<125>>

(***************************************************************************)
(* Codecs.  A conversion yields [ok |-> TRUE, v |-> result] or, where      *)
(* Python raises UnicodeError, [ok |-> FALSE, v |-> <<>>].                 *)
(***************************************************************************)
CodecError == [ok |-> FALSE, v |-> <<>>]

\* str.encode("latin-1"), which http.client applies to a str body
Latin1Encode(s) ==
  IF \A i \in 1..Len(s) : s[i] <= 255
  THEN [ok |-> TRUE, v |-> s]
  ELSE CodecError

IsCont(b) == b >= 128 /\ b <= 191

\* the number of bytes the lead byte b1 announces, 0 when b1 cannot start
\* a character (a continuation byte, 0xC0, 0xC1, 0xF5..0xFF)
Utf8Width(b1) ==
  IF b1 < 128 THEN 1
  ELSE IF b1 >= 194 /\ b1 <= 223 THEN 2
  ELSE IF b1 >= 224 /\ b1 <= 239 THEN 3
  ELSE IF b1 >= 240 /\ b1 <= 244 THEN 4
  ELSE 0

\* whether c is exactly the encoding of one character: the continuation
\* bytes are in range, and no overlong form, surrogate or value above
\* U+10FFFF is accepted
Utf8CharOk(c) ==
  /\ Len(c) > 0
  /\ Utf8Width(c[1]) = Len(c)
  /\ \A k \in 2..Len(c) : IsCont(c[k])
  /\ (c[1] = 224 => c[2] >= 160)
  /\ (c[1] = 237 => c[2] <= 159)
  /\ (c[1] = 240 => c[2] >= 144)
  /\ (c[1] = 244 => c[2] <= 143)

\* the code point of the character encoded by c
Utf8CodePoint(c) ==
  CASE Len(c) = 1 -> c[1]
    [] Len(c) = 2 -> (c[1] - 192) * 64 + (c[2] - 128)
    [] Len(c) = 3 -> (c[1] - 224) * 4096 + (c[2] - 128) * 64 + (c[3] - 128)
    [] OTHER      -> (c[1] - 240) * 262144 + (c[2] - 128) * 4096
                     + (c[3] - 128) * 64 + (c[4] - 128)

IsCodePoint(c) == c >= 0

\* bytes.decode("utf-8"), strict.  The bytes that are not continuation
\* bytes are where the characters start: the input is valid when it starts
\* with a character and every character is well formed and is followed by
\* another one or by the end; the text is the characters, in order.
Utf8Decode(b) ==
  LET n          == Len(b)
      IsStart(i) == ~IsCont(b[i])
      End(i)     == i + Utf8Width(b[i]) - 1
      valid      ==
        /\ (n > 0 => IsStart(1))
        /\ \A i \in 1..n :
             IsStart(i) =>
               /\ Utf8Width(b[i]) > 0
               /\ End(i) <= n
               /\ Utf8CharOk(SubSeq(b, i, End(i)))
               /\ (End(i) = n \/ IsStart(End(i) + 1))
      cps        ==
        [i \in 1..n |->
           IF IsStart(i) THEN Utf8CodePoint(SubSeq(b, i, End(i))) ELSE -1]
  IN  IF valid
      THEN [ok |-> TRUE, v |-> SelectSeq(cps, IsCodePoint)]
      ELSE CodecError

\* the UTF-8 bytes of one code point (surrogates cannot be encoded)
Utf8Char(c) ==
  IF c < 128 THEN <<c>>
  ELSE IF c < 2048 THEN <<192 + (c \div 64), 128 + (c % 64)>>
  ELSE IF c < 65536
  THEN <<224 + (c \div 4096), 128 + ((c \div 64) % 64), 128 + (c % 64)>>
  ELSE <<240 + (c \div 262144), 128 + ((c \div 4096) % 64),
         128 + ((c \div 64) % 64), 128 + (c % 64)>>

RECURSIVE Utf8EncodeAll(_)
Utf8EncodeAll(s) ==
  IF s = <<>> THEN <<>>
  ELSE IF Len(s) = 1 THEN Utf8Char(s[1])
  ELSE LET h == Len(s) \div 2
       IN  Utf8EncodeAll(SubSeq(s, 1, h)) \o Utf8EncodeAll(SubSeq(s, h + 1, Len(s)))

\* str.encode("utf-8")
Utf8Encode(s) ==
  IF \A i \in 1..Len(s) : ~(s[i] >= 55296 /\ s[i] <= 57343)
  THEN [ok |-> TRUE, v |-> Utf8EncodeAll(s)]
  ELSE CodecError

(***************************************************************************)
(* json.loads, for the JSON texts made of strings and objects: a number,   *)
(* a literal or an array is rejected, so the parser is exact only for      *)
(* texts in which none can occur.  A parsed value is                       *)
(* [t |-> "str", v |-> code points] or [t |-> "obj", v |-> members in      *)
(* order, each <<key, value>>]; a parse yields [ok, val, rest].            *)
(***************************************************************************)
ParseError == [ok |-> FALSE, val |-> [t |-> "none", v |-> <<>>], rest |-> <<>>]

IsWs(c) == c \in {32, 9, 10, 13}

RECURSIVE SkipWs(_)
SkipWs(s) == IF s # <<>> /\ IsWs(Head(s)) THEN SkipWs(Tail(s)) ELSE s

HexVal(c) ==
  IF c >= 48 /\ c <= 57 THEN c - 48
  ELSE IF c >= 97 /\ c <= 102 THEN c - 87
  ELSE IF c >= 65 /\ c <= 70 THEN c - 55
  ELSE -1

\* the value of the four hex digits s[i..i+3], or -1
Hex4At(s, i) ==
  IF Len(s) >= i + 3 /\ \A k \in i..(i + 3) : HexVal(s[k]) >= 0
  THEN HexVal(s[i]) * 4096 + HexVal(s[i + 1]) * 256
       + HexVal(s[i + 2]) * 16 + HexVal(s[i + 3])
  ELSE -1

SimpleEscape(c) ==
  CASE c = 34  -> 34
    [] c = 92  -> 92
    [] c = 47  -> 47
    [] c = 98  -> 8
    [] c = 102 -> 12
    [] c = 110 -> 10
    [] c = 114 -> 13
    [] c = 116 -> 9
    [] OTHER   -> -1

\* the characters of a string after its opening quote, up to the closing one
RECURSIVE ScanString(_, _)
ScanString(s, acc) ==
  IF s = <<>> THEN ParseError
  ELSE LET c == s[1]
           n == Len(s)
       IN  IF c = 34
           THEN [ok |-> TRUE, val |-> [t |-> "str", v |-> acc], rest |-> Tail(s)]
           ELSE IF c < 32 THEN ParseError
           ELSE IF c # 92 THEN ScanString(Tail(s), Append(acc, c))
           ELSE IF n < 2 THEN ParseError
           ELSE IF s[2] # 117
           THEN IF SimpleEscape(s[2]) < 0 THEN ParseError
                ELSE ScanString(SubSeq(s, 3, n), Append(acc, SimpleEscape(s[2])))
           ELSE LET u == Hex4At(s, 3)
                    lo == IF n >= 8 /\ s[7] = 92 /\ s[8] = 117
                          THEN Hex4At(s, 9) ELSE -1
                IN  IF u < 0 THEN ParseError
                    ELSE IF /\ u >= 55296
                            /\ u <= 56319
                            /\ lo >= 56320
                            /\ lo <= 57343
                    THEN ScanString(SubSeq(s, 13, n),
                           Append(acc, 65536 + (u - 55296) * 1024 + (lo - 56320)))
                    ELSE ScanString(SubSeq(s, 7, n), Append(acc, u))

RECURSIVE ParseValue(_)
RECURSIVE ParseMembers(_, _)

\* s starts at a key's opening quote; acc holds the members parsed so far
ParseMembers(s, acc) ==
  IF s = <<>> \/ Head(s) # 34 THEN ParseError
  ELSE LET k == ScanString(Tail(s), <<>>)
       IN  IF ~k.ok THEN ParseError
           ELSE LET s1 == SkipWs(k.rest)
                IN  IF s1 = <<>> \/ Head(s1) # 58 THEN ParseError
                    ELSE LET x == ParseValue(SkipWs(Tail(s1)))
                         IN  IF ~x.ok THEN ParseError
                             ELSE LET s2 == SkipWs(x.rest)
                                      m  == Append(acc, <<k.val.v, x.val>>)
                                  IN  IF s2 = <<>> THEN ParseError
                                      ELSE IF Head(s2) = 125
                                      THEN [ok |-> TRUE,
                                            val |-> [t |-> "obj", v |-> m],
                                            rest |-> Tail(s2)]
                                      ELSE IF Head(s2) = 44
                                      THEN ParseMembers(SkipWs(Tail(s2)), m)
                                      ELSE ParseError

ParseValue(s) ==
  IF s = <<>> THEN ParseError
  ELSE IF Head(s) = 34 THEN ScanString(Tail(s), <<>>)
  ELSE IF Head(s) = 123
  THEN LET s1 == SkipWs(Tail(s))
       IN  IF s1 # <<>> /\ Head(s1) = 125
           THEN [ok |-> TRUE, val |-> [t |-> "obj", v |-> <<>>],
                 rest |-> Tail(s1)]
           ELSE ParseMembers(s1, <<>>)
  ELSE ParseError

\* json.loads of a str
JsonLoads(s) ==
  LET x == ParseValue(SkipWs(s))
  IN  IF x.ok /\ SkipWs(x.rest) = <<>> THEN x ELSE ParseError

\* json.loads of a bytes object: the bytes are decoded as UTF-8 first
JsonLoadsBytes(b) ==
  LET d == Utf8Decode(b)
  IN  IF d.ok THEN JsonLoads(d.v) ELSE ParseError

\* the dict a parsed object stands for: a repeated key keeps its last value
AsDict(members) ==
  [k \in {members[i][1] : i \in DOMAIN members} |->
     LET last == CHOOSE i \in DOMAIN members :
                   /\ members[i][1] = k
                   /\ \A j \in DOMAIN members : members[j][1] = k => j <= i
     IN  members[last][2]]

(***************************************************************************)
(* The peer and the responses it may send.                                 *)
(***************************************************************************)
\* the bytes response bodies are made of: '"', '{', '}' and the three
\* bytes of the UTF-8 encoding of U+751F
BodyBytes == {34, 123, 125, 231, 148, 159}

\* {"status":"ok"}
StatusOkBody ==
  <<123, 34, 115, 116, 97, 116, 117, 115, 34, 58, 34, 111, 107, 34, 125>>

\* the UTF-8 encoding of U+751F
CjkBody == <<231, 148, 159>>

ResponseBodies ==
  UNION {[1..n -> BodyBytes] : n \in 0..MaxBody} \cup {StatusOkBody, CjkBody}

Statuses == {200, 500}

\* a response as it arrives: complete is FALSE when the connection ends
\* before the announced Content-Length has been delivered
Responses == [status : Statuses, body : ResponseBodies, complete : BOOLEAN]

Peers == {"refuses", "responsive", "silent"}

NoConn == [host |-> "", port |-> 0, sock |-> "none"]
NoRes == [status |-> 0, body |-> <<>>, complete |-> FALSE]
NoInbox == [kind |-> "none", response |-> NoRes]

Terminal == pc \in {"exited", "faulted"}

(***************************************************************************)
(* http.client: the request conn.request puts on the wire.                 *)
(***************************************************************************)
\* putrequest and _send_request add Host, Accept-Encoding and Content-Length
\* before the caller's headers; Content-Length of a str body is len(body)
AutoHeaders(c, body) ==
  << <<"Host", c.host \o ":" \o ToString(c.port)>>,
     <<"Accept-Encoding", "identity">>,
     <<"Content-Length", ToString(Len(body))>> >>

BuildRequest(c, method, url, body, hdrs, encoded) ==
  [host |-> c.host, port |-> c.port, method |-> method, path |-> url,
   headers |-> AutoHeaders(c, body) \o hdrs, body |-> encoded]

(***************************************************************************)
(* The script, one action per statement.                                   *)
(***************************************************************************)
Init ==
  /\ pc = "line4"
  /\ err = ""
  /\ conn = NoConn
  /\ payload = <<>>
  /\ headers = <<>>
  /\ res = NoRes
  /\ data = <<>>
  /\ stdout = <<>>
  /\ peer = "unknown"
  /\ inbox = NoInbox
  /\ wire = <<>>
  /\ steps = <<>>
  /\ run = 1

\* line 4: the constructor stores host and port and opens no socket
NewConnection ==
  /\ pc = "line4"
  /\ conn' = [host |-> Host, port |-> Port, sock |-> "none"]
  /\ pc' = "line5"
  /\ UNCHANGED <<err, payload, headers, res, data, stdout, peer, inbox, wire,
                 steps, run>>

\* lines 5-8
DumpsPayload ==
  /\ pc = "line5"
  /\ payload' = JsonDumps(PayloadObject)
  /\ steps' = Append(steps, "serialize")
  /\ pc' = "line9"
  /\ UNCHANGED <<err, conn, headers, res, data, stdout, peer, inbox, wire,
                 run>>

\* lines 9-12
SetHeaders ==
  /\ pc = "line9"
  /\ headers' = HeadersLiteral
  /\ pc' = "line13"
  /\ UNCHANGED <<err, conn, payload, res, data, stdout, peer, inbox, wire,
                 steps, run>>

\* mutant of Request: a refused connection is tried again
RequestRetry ==
  /\ pc = "line13"
  /\ \E p \in Peers :
       /\ peer' = p
       /\ steps' = Append(steps, "connect")
       /\ IF p = "refuses"
          THEN UNCHANGED <<pc, conn, wire>>
          ELSE /\ conn' = [conn EXCEPT !.sock = "open"]
               /\ wire' = Append(wire,
                    BuildRequest(conn, Method, Path, payload, headers,
                                 Latin1Encode(payload).v))
               /\ pc' = "line14"
  /\ UNCHANGED <<err, payload, headers, res, data, stdout, inbox, run>>

\* line 13: conn.request encodes the str body as latin-1, then opens the
\* socket (auto_open) and sends request line, headers and body
Request ==
  /\ pc = "line13"
  /\ LET enc == Latin1Encode(payload)
     IN  IF ~enc.ok
         THEN /\ pc' = "faulted"
              /\ err' = "UnicodeEncodeError"
              /\ UNCHANGED <<conn, peer, wire, steps>>
         ELSE \E p \in Peers :
                /\ peer' = p
                /\ IF p = "refuses"
                   THEN /\ pc' = "faulted"
                        /\ err' = "ConnectionRefusedError"
                        /\ steps' = Append(steps, "connect")
                        /\ UNCHANGED <<conn, wire>>
                   ELSE /\ conn' = [conn EXCEPT !.sock = "open"]
                        /\ wire' = Append(wire,
                             BuildRequest(conn, Method, Path, payload, headers,
                                          enc.v))
                        /\ steps' = steps \o <<"connect", "send">>
                        /\ pc' = "line14"
                        /\ UNCHANGED err
  /\ UNCHANGED <<payload, headers, res, data, stdout, inbox, run>>

\* the peer answers the request
ServerRespond ==
  /\ pc = "line14"
  /\ peer = "responsive"
  /\ inbox.kind = "none"
  /\ \E r \in Responses : inbox' = [kind |-> "response", response |-> r]
  /\ UNCHANGED <<pc, err, conn, payload, headers, res, data, stdout, peer,
                 wire, steps, run>>

\* the peer closes the connection without sending a response
ServerClose ==
  /\ pc = "line14"
  /\ peer = "responsive"
  /\ inbox.kind = "none"
  /\ inbox' = [kind |-> "closed", response |-> NoRes]
  /\ UNCHANGED <<pc, err, conn, payload, headers, res, data, stdout, peer,
                 wire, steps, run>>

\* mutant of GetResponse: a status other than 200 raises
GetResponseRaiseForStatus ==
  /\ pc = "line14"
  /\ inbox.kind # "none"
  /\ IF inbox.kind = "closed" \/ inbox.response.status # 200
     THEN /\ pc' = "faulted"
          /\ err' = IF inbox.kind = "closed"
                    THEN "RemoteDisconnected" ELSE "HTTPError"
          /\ conn' = [conn EXCEPT !.sock = "none"]
          /\ UNCHANGED <<res, steps>>
     ELSE /\ res' = inbox.response
          /\ steps' = Append(steps, "receive")
          /\ pc' = "line15"
          /\ UNCHANGED <<err, conn>>
  /\ UNCHANGED <<payload, headers, data, stdout, peer, inbox, wire, run>>

\* mutant of GetResponse: a connection closed without a response is taken
\* for a response with an empty body
GetResponseEmptyOnClose ==
  /\ pc = "line14"
  /\ inbox.kind # "none"
  /\ res' = IF inbox.kind = "closed"
            THEN [status |-> 200, body |-> <<>>, complete |-> TRUE]
            ELSE inbox.response
  /\ steps' = Append(steps, "receive")
  /\ pc' = "line15"
  /\ UNCHANGED <<err, conn, payload, headers, data, stdout, peer, inbox, wire,
                 run>>

\* mutant of GetResponse: the wait gives up when nothing has arrived
GetResponseTimeout ==
  /\ pc = "line14"
  /\ IF inbox.kind # "response"
     THEN /\ pc' = "faulted"
          /\ err' = IF inbox.kind = "closed"
                    THEN "RemoteDisconnected" ELSE "TimeoutError"
          /\ conn' = [conn EXCEPT !.sock = "none"]
          /\ UNCHANGED <<res, steps>>
     ELSE /\ res' = inbox.response
          /\ steps' = Append(steps, "receive")
          /\ pc' = "line15"
          /\ UNCHANGED <<err, conn>>
  /\ UNCHANGED <<payload, headers, data, stdout, peer, inbox, wire, run>>

\* line 14: getresponse blocks until the status line and headers have
\* arrived or the connection has ended; no timeout is set on the socket
GetResponse ==
  /\ pc = "line14"
  /\ inbox.kind # "none"
  /\ IF inbox.kind = "closed"
     THEN /\ pc' = "faulted"
          /\ err' = "RemoteDisconnected"
          /\ conn' = [conn EXCEPT !.sock = "none"]
          /\ UNCHANGED <<res, steps>>
     ELSE /\ res' = inbox.response
          /\ steps' = Append(steps, "receive")
          /\ pc' = "line15"
          /\ UNCHANGED <<err, conn>>
  /\ UNCHANGED <<payload, headers, data, stdout, peer, inbox, wire, run>>

\* line 15: read() returns the whole body or raises IncompleteRead
Read ==
  /\ pc = "line15"
  /\ IF res.complete
     THEN /\ data' = res.body
          /\ steps' = Append(steps, "read")
          /\ pc' = "line16"
          /\ UNCHANGED err
     ELSE /\ pc' = "faulted"
          /\ err' = "IncompleteRead"
          /\ UNCHANGED <<data, steps>>
  /\ UNCHANGED <<conn, payload, headers, res, stdout, peer, inbox, wire, run>>

\* mutant of Printed: no line end
PrintedNoNewline(text) == text

\* what print(text) writes
Printed(text) == text \o <<10>>

\* mutant of PrintDecoded: the body is written as it is decoded, so the
\* ASCII bytes before an undecodable byte are out before the fault
PrintDecodedStreaming ==
  /\ pc = "line16"
  /\ LET d == Utf8Decode(data)
         ascii == {k \in 0..Len(data) : \A m \in 1..k : data[m] < 128}
         n == CHOOSE k \in ascii : \A m \in ascii : m <= k
     IN  IF d.ok
         THEN /\ stdout' = stdout \o Printed(d.v)
              /\ steps' = steps \o <<"decode", "print">>
              /\ pc' = "exited"
              /\ UNCHANGED err
         ELSE /\ pc' = "faulted"
              /\ err' = "UnicodeDecodeError"
              /\ steps' = Append(steps, "decode")
              /\ stdout' = stdout \o SubSeq(data, 1, n)
  /\ UNCHANGED <<conn, payload, headers, res, data, peer, inbox, wire, run>>

\* line 16: the argument is decoded before print is called
PrintDecoded ==
  /\ pc = "line16"
  /\ LET d == Utf8Decode(data)
     IN  IF d.ok
         THEN /\ stdout' = stdout \o Printed(d.v)
              /\ steps' = steps \o <<"decode", "print">>
              /\ pc' = "exited"
              /\ UNCHANGED err
         ELSE /\ pc' = "faulted"
              /\ err' = "UnicodeDecodeError"
              /\ steps' = Append(steps, "decode")
              /\ UNCHANGED stdout
  /\ UNCHANGED <<conn, payload, headers, res, data, peer, inbox, wire, run>>

\* the script is run again, in a new process
Rerun ==
  /\ Terminal
  /\ run < MaxRuns
  /\ run' = run + 1
  /\ pc' = "line4"
  /\ err' = ""
  /\ conn' = NoConn
  /\ payload' = <<>>
  /\ headers' = <<>>
  /\ res' = NoRes
  /\ data' = <<>>
  /\ stdout' = <<>>
  /\ peer' = "unknown"
  /\ inbox' = NoInbox
  /\ steps' = <<>>
  /\ UNCHANGED wire

Next ==
  \/ NewConnection
  \/ DumpsPayload
  \/ SetHeaders
  \/ Request
  \/ ServerRespond
  \/ ServerClose
  \/ GetResponse
  \/ Read
  \/ PrintDecoded
  \/ Rerun

Spec == Init /\ [][Next]_vars

\* the interpreter executes the next statement whenever it can (at most
\* one statement is enabled at a time), and a responsive peer eventually
\* answers or ends the connection; a silent peer never does, and nothing
\* makes the script run again
LiveSpec ==
  /\ Spec
  /\ WF_vars(NewConnection)
  /\ WF_vars(DumpsPayload)
  /\ WF_vars(SetHeaders)
  /\ WF_vars(Request)
  /\ WF_vars(GetResponse)
  /\ WF_vars(Read)
  /\ WF_vars(PrintDecoded)
  /\ WF_vars(ServerRespond \/ ServerClose)

TypeOK ==
  /\ pc \in {"line4", "line5", "line9", "line13", "line14", "line15",
             "line16", "exited", "faulted"}
  /\ err \in {"", "UnicodeEncodeError", "ConnectionRefusedError",
               "RemoteDisconnected", "IncompleteRead", "UnicodeDecodeError"}
  /\ (err # "") = (pc = "faulted")
  /\ conn.sock \in {"none", "open"}
  /\ peer \in Peers \cup {"unknown"}
  /\ inbox.kind \in {"none", "response", "closed"}
  /\ (inbox.kind = "response" => inbox.response \in Responses)
  /\ res \in Responses \cup {NoRes}
  /\ data \in ResponseBodies
  /\ run \in 1..MaxRuns

(***************************************************************************)
(* Properties.                                                             *)
(***************************************************************************)
HeaderValues(req, name) ==
  {req.headers[i][2] : i \in {k \in DOMAIN req.headers : req.headers[k][1] = name}}

Count(seq, x) == Cardinality({i \in DOMAIN seq : seq[i] = x})

IsPrefix(a, b) == Len(a) <= Len(b) /\ SubSeq(b, 1, Len(a)) = a

\* C1: every request the script emits goes to 127.0.0.1:8000, is a POST of
\* /generate and carries User-Agent: Apifox/1.0.0 (https://apifox.com) and
\* Content-Type: application/json, and a run that has sent has sent one.
C1_RequestLine ==
  /\ \A i \in DOMAIN wire :
       /\ wire[i].host = "127.0.0.1"
       /\ wire[i].port = 8000
       /\ wire[i].method = "POST"
       /\ wire[i].path = "/generate"
       /\ HeaderValues(wire[i], "User-Agent")
            = {"Apifox/1.0.0 (https://apifox.com)"}
       /\ HeaderValues(wire[i], "Content-Type") = {"application/json"}
  /\ ("send" \in {steps[i] : i \in DOMAIN steps} => Count(steps, "send") = 1)

C1_Witness ==
  /\ pc = "line14"
  /\ Len(wire) = 1
  /\ Count(steps, "send") = 1

\* {"question": "生成一个贪吃蛇项目", "language": "python"} as a dict
C2_Expected ==
  AsDict(<< << <<113, 117, 101, 115, 116, 105, 111, 110>>,
               [t |-> "str",
                v |-> <<29983, 25104, 19968, 20010, 36138, 21507, 34503,
                        39033, 30446>>] >>,
            << <<108, 97, 110, 103, 117, 97, 103, 101>>,
               [t |-> "str", v |-> <<112, 121, 116, 104, 111, 110>>] >> >>)

\* C2: the body of every request sent parses as JSON to exactly the object
\* with question = "生成一个贪吃蛇项目" and language = "python": two members,
\* none missing, none extra.
C2_BodyParses ==
  \A b \in {wire[i].body : i \in DOMAIN wire} :
    LET x == JsonLoadsBytes(b)
    IN  /\ x.ok
        /\ x.val.t = "obj"
        /\ Len(x.val.v) = 2
        /\ AsDict(x.val.v) = C2_Expected

C2_Witness ==
  /\ wire # <<>>
  /\ Len(wire[1].body) > 0
  /\ "send" \in {steps[i] : i \in DOMAIN steps}

\* the text {"question": "生成一个贪吃蛇项目", "language": "python"}
C3_LiteralText ==
  <<123, 34, 113, 117, 101, 115, 116, 105, 111, 110, 34, 58, 32, 34,
    29983, 25104, 19968, 20010, 36138, 21507, 34503, 39033, 30446,
    34, 44, 32, 34, 108, 97, 110, 103, 117, 97, 103, 101, 34, 58, 32, 34,
    112, 121, 116, 104, 111, 110, 34, 125>>

\* the ASCII bytes of the text json.dumps returns for the payload, the
\* nine Chinese characters written \u751f \u6210 \u4e00 \u4e2a \u8d2a
\* \u5403 \u86c7 \u9879 \u76ee
C3_EscapedBytes ==
  <<123, 34, 113, 117, 101, 115, 116, 105, 111, 110, 34, 58, 32, 34,
    92, 117, 55, 53, 49, 102, 92, 117, 54, 50, 49, 48,
    92, 117, 52, 101, 48, 48, 92, 117, 52, 101, 50, 97,
    92, 117, 56, 100, 50, 97, 92, 117, 53, 52, 48, 51,
    92, 117, 56, 54, 99, 55, 92, 117, 57, 56, 55, 57,
    92, 117, 55, 54, 101, 101,
    34, 44, 32, 34, 108, 97, 110, 103, 117, 97, 103, 101, 34, 58, 32, 34,
    112, 121, 116, 104, 111, 110, 34, 125>>

\* C3 as stated: the body bytes on the wire are the UTF-8 encoding of the
\* text {"question": "生成一个贪吃蛇项目", "language": "python"}, the
\* Chinese characters appearing as their UTF-8 byte sequences.
C3_Original ==
  \A i \in DOMAIN wire : wire[i].body = Utf8Encode(C3_LiteralText).v

\* C3 as amended: the body bytes on the wire are the 92 ASCII bytes of the
\* text in which json.dumps has written every Chinese character as a
\* lower-case \uXXXX escape; no byte of the body is above 127.
C3_Amended ==
  \A i \in DOMAIN wire :
    /\ wire[i].body = C3_EscapedBytes
    /\ Len(wire[i].body) = 92
    /\ \A k \in DOMAIN wire[i].body : wire[i].body[k] < 128

C3_Witness ==
  /\ wire # <<>>
  /\ pc = "line14"
  /\ wire[Len(wire)].body # Utf8Encode(C3_LiteralText).v

\* C7: any two requests sent, in the same or in different runs and whatever
\* the peer answered in between, are identical in request line, headers and
\* body.
C7_Deterministic ==
  \A i, j \in DOMAIN wire : wire[i] = wire[j]

C7_Witness ==
  /\ Len(wire) >= 2
  /\ run >= 2
  /\ "send" \in {steps[i] : i \in DOMAIN steps}

\* C8: in every run the script attempts at most one connection and sends at
\* most one request, whatever the peer does; over all runs no more requests
\* are on the wire than there were runs.
C8_AtMostOnce ==
  /\ Count(steps, "connect") <= 1
  /\ Count(steps, "send") <= 1
  /\ Len(wire) <= run
  /\ (Terminal => ~ENABLED (Request \/ GetResponse))

C8_Witness ==
  /\ pc = "faulted"
  /\ err = "ConnectionRefusedError"
  /\ Count(steps, "connect") = 1
  /\ Count(steps, "send") = 0

TheOrder ==
  <<"serialize", "connect", "send", "receive", "read", "decode", "print">>

\* a complete response with a body that is valid UTF-8 has arrived
ValidResponse ==
  /\ inbox.kind = "response"
  /\ inbox.response.complete
  /\ Utf8Decode(inbox.response.body).ok

\* C4: once a run has ended on a complete response whose body B is valid
\* UTF-8, it has exited normally and its standard output is the text of B
\* followed by one newline: the output without its last character encodes
\* back to B; for the body {"status":"ok"} the output is that text and a
\* newline.
C4_PassThrough ==
  (Terminal /\ ValidResponse) =>
    /\ pc = "exited"
    /\ err = ""
    /\ stdout # <<>>
    /\ stdout[Len(stdout)] = 10
    /\ Utf8Encode(SubSeq(stdout, 1, Len(stdout) - 1)).v = inbox.response.body
    /\ (inbox.response.body
          = <<123, 34, 115, 116, 97, 116, 117, 115, 34, 58, 34, 111, 107,
              34, 125>>
        => stdout = <<123, 34, 115, 116, 97, 116, 117, 115, 34, 58, 34, 111,
                      107, 34, 125, 10>>)

C4_Witness ==
  /\ pc = "exited"
  /\ inbox.kind = "response"
  /\ inbox.response.status = 200
  /\ inbox.response.body = StatusOkBody
  /\ stdout = StatusOkBody \o <<10>>

\* the four failures C5 names
ConnectionError == peer = "refuses" \/ inbox.kind = "closed"
Non200 == inbox.kind = "response" /\ inbox.response.status # 200
MalformedJson ==
  inbox.kind = "response" /\ ~JsonLoadsBytes(inbox.response.body).ok
DecodingFailure ==
  /\ inbox.kind = "response"
  /\ inbox.response.complete
  /\ ~Utf8Decode(inbox.response.body).ok

\* C5 as stated: a run that met a connection error, a non-200 status,
\* malformed JSON in the response or a decoding failure ends faulted, not
\* in the normal exit.
C5_Original ==
  (Terminal /\ (ConnectionError \/ Non200 \/ MalformedJson \/ DecodingFailure))
    => pc = "faulted"

\* C5 as amended: a run that met a connection error or a decoding failure
\* ends faulted; a run whose response has a non-200 status or a body that
\* is not JSON ends faulted only if the body is incomplete or is not valid
\* UTF-8, and otherwise exits normally with the body printed.
C5_Amended ==
  Terminal =>
    /\ ((ConnectionError \/ DecodingFailure) => (pc = "faulted" /\ err # ""))
    /\ ((Non200 \/ MalformedJson) =>
          /\ (pc = "exited") = ValidResponse
          /\ (pc = "exited" => stdout # <<>>))

C5_Witness ==
  /\ pc = "exited"
  /\ Non200
  /\ MalformedJson
  /\ stdout # <<>>

\* C6: when the peer has accepted the connection and closed it without a
\* response, the run never exits normally and writes nothing, and it does
\* end, faulted with RemoteDisconnected.
C6_ClosedWithoutResponse ==
  /\ [](inbox.kind = "closed" => (pc # "exited" /\ stdout = <<>>))
  /\ ((inbox.kind = "closed") ~> (pc = "faulted" /\ err = "RemoteDisconnected"))

C6_Witness ==
  /\ inbox.kind = "closed"
  /\ pc = "faulted"
  /\ err = "RemoteDisconnected"
  /\ Count(steps, "send") = 1

\* C9: the steps of a run are taken in the order serialize, connect, send,
\* receive, read, decode, print; standard output is written at most once,
\* after the body has been read and decoded, so a run that has written has
\* taken every step and a faulted run has written nothing.
C9_Order ==
  /\ IsPrefix(steps, TheOrder)
  /\ Count(steps, "print") <= 1
  /\ (stdout # <<>> => (steps = TheOrder /\ pc = "exited"))
  /\ ("print" \in {steps[i] : i \in DOMAIN steps} => data = res.body)
  /\ (pc = "faulted" => stdout = <<>>)

C9_Witness ==
  /\ pc = "faulted"
  /\ err = "UnicodeDecodeError"
  /\ steps = <<"serialize", "connect", "send", "receive", "read", "decode">>
  /\ \E k \in DOMAIN data : data[k] < 128
  /\ stdout = <<>>

Waiting == pc = "line14"

\* C10: the script leaves the wait of line 14 only when a response has
\* arrived or the connection has ended; a run waiting on a silent peer
\* stays there and has written nothing; and a run whose peer is not silent
\* eventually ends, exited or faulted.
C10_Blocking ==
  /\ [][(Waiting /\ ~Waiting') => inbox.kind \in {"response", "closed"}]_vars
  /\ [][(Waiting /\ peer = "silent") => (Waiting' /\ peer' = "silent")]_vars
  /\ []((Waiting /\ peer = "silent") => (stdout = <<>> /\ inbox.kind = "none"))
  /\ ((~Terminal /\ peer # "silent") ~> (Terminal \/ peer = "silent"))

C10_Witness ==
  /\ Waiting
  /\ peer = "silent"
  /\ inbox.kind = "none"
  /\ Count(steps, "send") = 1

====
